---- MODULE Spec2Model ----
(***************************************************************************)
(* A model of cocotb/decorators.py: the RunningTask / RunningTest wrappers *)
(* around one generator or coroutine, driven step by step by the           *)
(* scheduler (_advance), forcibly ended (kill, abort), observed (retval)   *)
(* and joined (join); the factories that make them (coroutine, function,   *)
(* test with its timeout wrapper and its definition-order id) and          *)
(* RunningTest's captured log messages and sort_name.                      *)
(*                                                                         *)
(* The scheduler (cocotb.scheduler), the outcomes (cocotb.outcomes), the   *)
(* Join trigger (cocotb.triggers) and remove_traceback_frames              *)
(* (cocotb.utils) are imported by decorators.py and are not part of it;    *)
(* what the model needs of them is written from the specification and is   *)
(* marked so where it is defined.                                          *)
(***************************************************************************)
EXTENDS Naturals, Sequences, FiniteSets, TLC

VARIABLES
    _coro,          \* RunningTask._coro: the wrapped generator, per task
    _started,       \* RunningTask._started
    _outcome,       \* RunningTask._outcome: None, Value(v) or Error(exc)
    _callbacks,     \* RunningTask._callbacks: the joiners waiting, in order
    started,        \* RunningTest.started
    start_time,     \* RunningTest.start_time
    start_sim_time, \* RunningTest.start_sim_time
    runnable,       \* the scheduler: the tasks it still holds
    pending,        \* the scheduler: the task whose CoroutineComplete it has
                    \* caught and not yet handled, or NoTask
    joined,         \* history: how many join() calls each task has had
    fired,          \* history: the joiners notified, in order, with what
                    \* they received and whether they had to wait
    unscheduled,    \* history: how many times unschedule(task) was called
    forced,         \* history: "kill" / "abort" once that call ended the task
    moved,          \* history: what each body did when it last ran
    last,           \* the last call made, and what it returned or raised
    error_messages, \* RunningTest.error_messages, per task
    func,           \* what the function decorated with test(timeout_time=..)
                    \* returns when it is called
    exists,         \* the task objects that have been constructed
    race,           \* where the timeout wrapper of a test is in its body
    _id_count,      \* test._id_count, per class that has the attribute
    factories,      \* the test factories constructed, in order
    tests,          \* the RunningTests made from them, in order
    regression,     \* the tests a regression manager is to order
    order,          \* ... and the order sorting by sort_name gave them
    thread          \* a thread that called a cocotb.function

taskvars == <<_coro, _started, _outcome, _callbacks, started, start_time,
              start_sim_time, runnable, pending, joined, fired, unscheduled,
              forced, moved, last>>
logvars == <<error_messages>>
racevars == <<func, exists, race>>
factoryvars == <<_id_count, factories, tests>>
sortvars == <<regression, order>>
bridgevars == <<thread>>

vars == <<taskvars, logvars, racevars, factoryvars, sortvars, bridgevars>>

---------------------------------------------------------------------------
(* Bounds of the model *)

\* resumptions of one body that may end in a new suspension
MaxSteps == 2
\* join() calls per task
MaxJoin == 2
\* log messages a test captures
MaxLogs == 2
\* test factories constructed
MaxFactories == 3
\* RunningTests made from them
MaxTests == 2
\* readings of time.time() and get_sim_time('ns') are drawn from 1..MaxTime
MaxTime == 2

---------------------------------------------------------------------------
(* The objects *)

\* the task: a RunningTest, the most derived class, which has all of
\* RunningTask's operations (RunningCoroutine adds attributes only)
Tasks == {"test"}
NoTask == "NoTask"

\* Python's None
None == "None"
\* what a body may return, and what an exception may carry
Payloads == {None, "a"}
\* what a body may yield to the scheduler
Requests == {"r1", "r2"}

Exc(kind, payload, tb) == [kind |-> kind, payload |-> payload, tb |-> tb]

\* the exception classes a body raises as failures: an Exception, a
\* BaseException that is no Exception, and the module's own signal
FailureKinds == {"ValueError", "KeyboardInterrupt", "CoroutineComplete"}

\* self._outcome = None: no outcome yet
NoOutcome == [tag |-> "None"]

\* outcomes.Value and outcomes.Error
Value(v) == [tag |-> "Value", value |-> v]
Error(e) == [tag |-> "Error", error |-> e]

\* what a call does: returns a value or raises an exception
Return(v) == [k |-> "return", v |-> v]
Raise(e) == [k |-> "raise", exc |-> e]

\* a call: the operation, the task it is made on, the outcome or exception
\* passed to it (as an Outcome; NoOutcome when it takes none, and for
\* _advance, whose argument the model does not record) and what it did
Call(op, t, arg, res) == [op |-> op, task |-> t, arg |-> arg, res |-> res]

\* the outcomes the scheduler resumes a task with
ResumeOutcomes ==
    {Value(None), Value("a"), Error(Exc("ValueError", "a", <<>>))}

\* the exceptions the scheduler aborts a test with
AbortExcs == {Exc("ValueError", p, <<>>) : p \in Payloads}

\* what a body does when it is resumed: suspend again with a request,
\* return a value, raise the legacy ReturnValue, or fail
BodyMoves ==
    [k : {"yield"}, v : Requests]
        \cup [k : {"return"}, v : Payloads]
        \cup [k : {"ReturnValue"}, v : Payloads]
        \cup [k : {"raise"}, kind : FailureKinds, payload : Payloads]

\* a body that has not run yet
NoMove == [k |-> "none"]

---------------------------------------------------------------------------
(* Helpers of the imported modules *)

\* outcomes.Value.get / outcomes.Error.get
get(o) ==
    IF o.tag = "Value" THEN Return(o.value) ELSE Raise(o.error)

\* cocotb.utils.remove_traceback_frames(exc, frame_names): the exception
\* with the leading frames, which are those named, removed from its traceback
remove_traceback_frames(e, frame_names) ==
    Exc(e.kind, e.payload, SubSeq(e.tb, Len(frame_names) + 1, Len(e.tb)))

\* outcome.send(coro): Value.send is coro.send(value), Error.send is
\* coro.throw(error). The result is what the call does (res), the generator
\* afterwards (coro), and whether body code ran.  A generator that has not
\* started runs no body code when an exception is thrown into it (the
\* exception comes straight back and the generator is closed) or when a
\* value other than None is sent to it (TypeError, the generator stays as it
\* was); otherwise the body runs and makes its move m.
send(o, c, m) ==
    IF c.state = "created" /\ o.tag = "Error" THEN
        [res |-> Raise(Exc(o.error.kind, o.error.payload,
                           <<"_advance", "send", "body">>)),
         coro |-> [state |-> "closed", steps |-> c.steps],
         ran |-> FALSE]
    ELSE IF c.state = "created" /\ o.value # None THEN
        [res |-> Raise(Exc("TypeError", None, <<"_advance", "send">>)),
         coro |-> c,
         ran |-> FALSE]
    ELSE IF m.k = "yield" THEN
        [res |-> Return(m.v),
         coro |-> [state |-> "suspended", steps |-> c.steps + 1],
         ran |-> TRUE]
    ELSE IF m.k = "return" THEN
        [res |-> Raise(Exc("StopIteration", m.v,
                           <<"_advance", "send">>)),
         coro |-> [state |-> "closed", steps |-> c.steps + 1],
         ran |-> TRUE]
    ELSE IF m.k = "ReturnValue" THEN
        [res |-> Raise(Exc("ReturnValue", m.v,
                           <<"_advance", "send", "body">>)),
         coro |-> [state |-> "closed", steps |-> c.steps + 1],
         ran |-> TRUE]
    ELSE
        [res |-> Raise(Exc(m.kind, m.payload,
                           <<"_advance", "send", "body">>)),
         coro |-> [state |-> "closed", steps |-> c.steps + 1],
         ran |-> TRUE]

---------------------------------------------------------------------------
(* RunningTask *)

_finished(t) == _outcome[t] # NoOutcome

\* has_started that asks the generator instead of the flag
has_started_by_coro(t) == _coro[t].state # "created"

has_started(t) == _started[t]

\* RunningTask.__bool__
bool(t) == ~ _finished(t)

\* the tasks T as their constructors leave them
Constructed(T) ==
    /\ _coro = [t \in T |-> [state |-> "created", steps |-> 0]]
    /\ _started = [t \in T |-> FALSE]
    /\ _outcome = [t \in T |-> NoOutcome]
    /\ _callbacks = [t \in T |-> <<>>]
    /\ started = [t \in T |-> FALSE]
    /\ start_time = [t \in T |-> 0]
    /\ start_sim_time = [t \in T |-> 0]
    /\ error_messages = [t \in T |-> <<>>]
    /\ joined = [t \in T |-> 0]
    /\ fired = [t \in T |-> <<>>]
    /\ unscheduled = [t \in T |-> 0]
    /\ forced = [t \in T |-> None]
    /\ moved = [t \in T |-> NoMove]
    /\ pending = NoTask
    /\ last = Call("init", NoTask, NoOutcome, Return(None))

\* a test that is there, made by a factory without a timeout
NoRace ==
    /\ func = [returns |-> "generator", timeout_time |-> None]
    /\ race = "none"
\* no test factory made since the class test was defined
NoFactory ==
    /\ _id_count = [c \in {"test"} |-> 0]
    /\ factories = <<>>
    /\ tests = <<>>
\* nothing to sort
NoRegression == regression = <<>> /\ order = <<>>
\* no thread in a cocotb.function
NoThread == thread = [pc |-> "outside", task |-> NoTask, res |-> NoOutcome]

Init ==
    /\ Constructed(Tasks)
    /\ runnable = Tasks
    /\ exists = Tasks
    /\ NoRace
    /\ NoFactory
    /\ NoRegression
    /\ NoThread

---------------------------------------------------------------------------
(* The scheduler, as far as decorators.py relies on it *)

\* cocotb.scheduler.unschedule(task): the scheduler drops the task and
\* fires the joiners waiting on it, in the order they registered, each
\* receiving the task's outcome
unschedule(t) ==
    /\ runnable' = runnable \ {t}
    /\ fired' = [fired EXCEPT ![t] =
                    @ \o [i \in 1..Len(_callbacks[t]) |->
                            [cb |-> _callbacks[t][i],
                             outcome |-> _outcome'[t],
                             waited |-> TRUE]]]
    /\ _callbacks' = [_callbacks EXCEPT ![t] = <<>>]
    /\ unscheduled' = [unscheduled EXCEPT ![t] = @ + 1]

---------------------------------------------------------------------------
(* RunningTask._advance *)

CoroutineComplete == Exc("CoroutineComplete", "", <<>>)

\* captured with a last clause that lets the body's own CoroutineComplete
\* through: nothing is stored for it
captured_leaks(e) ==
    IF e.kind = "ReturnValue" THEN Value(e.payload)
    ELSE IF e.kind = "StopIteration" THEN Value(e.payload)
    ELSE IF e.kind = "CoroutineComplete" THEN NoOutcome
    ELSE Error(remove_traceback_frames(e, <<"_advance", "send">>))

\* captured with a StopIteration clause that drops the returned value
captured_ignores_value(e) ==
    IF e.kind = "ReturnValue" THEN Value(e.payload)
    ELSE IF e.kind = "StopIteration" THEN Value(None)
    ELSE Error(remove_traceback_frames(e, <<"_advance", "send">>))

\* the three except clauses of _advance: the outcome stored for the
\* exception e that outcome.send(self._coro) raised
captured(e) ==
    IF e.kind = "ReturnValue" THEN Value(e.payload)
    ELSE IF e.kind = "StopIteration" THEN Value(e.payload)
    ELSE Error(remove_traceback_frames(e, <<"_advance", "send">>))

\* RunningTask._advance(outcome), the body making move m: either returns
\* what the body yielded, or stores the outcome and raises
\* CoroutineComplete, which the scheduler catches (pending)
_advance(t, o, m) ==
    LET s == send(o, _coro[t], m) IN
    /\ _started' = [_started EXCEPT ![t] = TRUE]
    /\ _coro' = [_coro EXCEPT ![t] = s.coro]
    /\ moved' = [moved EXCEPT ![t] = IF s.ran THEN m ELSE @]
    /\ IF s.res.k = "return"
       THEN /\ last' = Call("_advance", t, NoOutcome, s.res)
            /\ UNCHANGED <<_outcome, pending>>
       ELSE /\ _outcome' = [_outcome EXCEPT ![t] = captured(s.res.exc)]
            /\ last' = Call("_advance", t, NoOutcome,
                             Raise(CoroutineComplete))
            /\ pending' = t
    /\ UNCHANGED <<_callbacks, runnable, joined, fired, unscheduled, forced>>

\* RunningTest._advance that reads the clocks on every call
RunningTest_advance_rerecords(t, o, m, wall, sim) ==
    /\ start_time' = [start_time EXCEPT ![t] = wall]
    /\ start_sim_time' = [start_sim_time EXCEPT ![t] = sim]
    /\ started' = [started EXCEPT ![t] = TRUE]
    /\ _advance(t, o, m)

\* RunningTest._advance(outcome): the first call records the start times
\* (wall and sim are what time.time() and get_sim_time('ns') return)
RunningTest_advance(t, o, m, wall, sim) ==
    /\ IF ~ started[t]
       THEN /\ start_time' = [start_time EXCEPT ![t] = wall]
            /\ start_sim_time' = [start_sim_time EXCEPT ![t] = sim]
            /\ started' = [started EXCEPT ![t] = TRUE]
       ELSE UNCHANGED <<started, start_time, start_sim_time>>
    /\ _advance(t, o, m)

---------------------------------------------------------------------------
(* RunningTask.kill, RunningTest.abort, RunningTask.retval, join *)

\* kill without its early return: a finished task is killed again
kill_overwrites(t) ==
    /\ _outcome' = [_outcome EXCEPT ![t] = Value(None)]
    /\ unschedule(t)
    /\ forced' = [forced EXCEPT ![t] = "kill"]
    /\ last' = Call("kill", t, NoOutcome, Return(None))
    /\ UNCHANGED <<_coro, _started, started, start_time,
                   start_sim_time, pending, joined, moved>>

\* kill whose early return comes after the call to the scheduler
kill_reunschedules(t) ==
    /\ _outcome' = [_outcome EXCEPT ![t] =
                        IF @ # NoOutcome THEN @ ELSE Value(None)]
    /\ unschedule(t)
    /\ forced' = [forced EXCEPT ![t] =
                      IF _outcome[t] # NoOutcome THEN @ ELSE "kill"]
    /\ last' = Call("kill", t, NoOutcome, Return(None))
    /\ UNCHANGED <<_coro, _started, started, start_time,
                   start_sim_time, pending, joined, moved>>

\* kill that stores the outcome and does not call the scheduler
kill_forgets_scheduler(t) ==
    /\ _outcome' = [_outcome EXCEPT ![t] =
                        IF @ # NoOutcome THEN @ ELSE Value(None)]
    /\ forced' = [forced EXCEPT ![t] =
                      IF _outcome[t] # NoOutcome THEN @ ELSE "kill"]
    /\ last' = Call("kill", t, NoOutcome, Return(None))
    /\ UNCHANGED <<_coro, _started, _callbacks, started, start_time,
                   start_sim_time, runnable, pending, joined, fired,
                   unscheduled, moved>>

\* kill that closes the generator first: a suspended body runs its
\* cleanup
kill_graceful(t) ==
    IF _outcome[t] # NoOutcome
    THEN /\ last' = Call("kill", t, NoOutcome, Return(None))
         /\ UNCHANGED <<_coro, _started, _outcome, _callbacks, started,
                        start_time, start_sim_time, runnable, pending,
                        joined, fired, unscheduled, forced, moved>>
    ELSE /\ _coro' = [_coro EXCEPT ![t] =
                         IF @.state = "suspended"
                         THEN [state |-> "closed", steps |-> @.steps + 1]
                         ELSE [state |-> "closed", steps |-> @.steps]]
         /\ _outcome' = [_outcome EXCEPT ![t] = Value(None)]
         /\ unschedule(t)
         /\ forced' = [forced EXCEPT ![t] = "kill"]
         /\ last' = Call("kill", t, NoOutcome, Return(None))
         /\ UNCHANGED <<_started, started, start_time,
                        start_sim_time, pending, joined, moved>>

\* kill that calls the scheduler before it stores the outcome
kill_unschedules_first(t) ==
    IF _outcome[t] # NoOutcome
    THEN /\ last' = Call("kill", t, NoOutcome, Return(None))
         /\ UNCHANGED <<_coro, _started, _outcome, _callbacks, started,
                        start_time, start_sim_time, runnable, pending,
                        joined, fired, unscheduled, forced, moved>>
    ELSE /\ runnable' = runnable \ {t}
         /\ fired' = [fired EXCEPT ![t] =
                         @ \o [i \in 1..Len(_callbacks[t]) |->
                                 [cb |-> _callbacks[t][i],
                                  outcome |-> _outcome[t],
                                  waited |-> TRUE]]]
         /\ _callbacks' = [_callbacks EXCEPT ![t] = <<>>]
         /\ unscheduled' = [unscheduled EXCEPT ![t] = @ + 1]
         /\ _outcome' = [_outcome EXCEPT ![t] = Value(None)]
         /\ forced' = [forced EXCEPT ![t] = "kill"]
         /\ last' = Call("kill", t, NoOutcome, Return(None))
         /\ UNCHANGED <<_coro, _started, started, start_time,
                        start_sim_time, pending, joined, moved>>

kill(t) ==
    IF _outcome[t] # NoOutcome
    THEN /\ last' = Call("kill", t, NoOutcome, Return(None))
         /\ UNCHANGED <<_coro, _started, _outcome, _callbacks, started,
                        start_time, start_sim_time, runnable, pending,
                        joined, fired, unscheduled, forced, moved>>
    ELSE /\ _outcome' = [_outcome EXCEPT ![t] = Value(None)]
         /\ unschedule(t)
         /\ forced' = [forced EXCEPT ![t] = "kill"]
         /\ last' = Call("kill", t, NoOutcome, Return(None))
         /\ UNCHANGED <<_coro, _started, started, start_time,
                        start_sim_time, pending, joined, moved>>

\* abort without its assert
abort_unchecked(t, exc) ==
    /\ _outcome' = [_outcome EXCEPT ![t] = Error(exc)]
    /\ unschedule(t)
    /\ forced' = [forced EXCEPT ![t] = "abort"]
    /\ last' = Call("abort", t, Error(exc), Return(None))
    /\ UNCHANGED <<_coro, _started, started, start_time,
                   start_sim_time, pending, joined, moved>>

\* abort that ends the test as kill does, dropping the failure
abort_as_kill(t, exc) ==
    IF _outcome[t] # NoOutcome
    THEN /\ last' = Call("abort", t, Error(exc),
                          Raise(Exc("AssertionError", "", <<>>)))
         /\ UNCHANGED <<_coro, _started, _outcome, _callbacks, started,
                        start_time, start_sim_time, runnable, pending,
                        joined, fired, unscheduled, forced, moved>>
    ELSE /\ _outcome' = [_outcome EXCEPT ![t] = Value(None)]
         /\ unschedule(t)
         /\ forced' = [forced EXCEPT ![t] = "abort"]
         /\ last' = Call("abort", t, Error(exc), Return(None))
         /\ UNCHANGED <<_coro, _started, started, start_time,
                        start_sim_time, pending, joined, moved>>

\* abort that stores the outcome and does not call the scheduler
abort_forgets_scheduler(t, exc) ==
    IF _outcome[t] # NoOutcome
    THEN /\ last' = Call("abort", t, Error(exc),
                          Raise(Exc("AssertionError", "", <<>>)))
         /\ UNCHANGED <<_coro, _started, _outcome, _callbacks, started,
                        start_time, start_sim_time, runnable, pending,
                        joined, fired, unscheduled, forced, moved>>
    ELSE /\ _outcome' = [_outcome EXCEPT ![t] = Error(exc)]
         /\ forced' = [forced EXCEPT ![t] = "abort"]
         /\ last' = Call("abort", t, Error(exc), Return(None))
         /\ UNCHANGED <<_coro, _started, _callbacks, started, start_time,
                        start_sim_time, runnable, pending, joined, fired,
                        unscheduled, moved>>

\* the assert of abort raises AssertionError and nothing is changed
abort(t, exc) ==
    IF _outcome[t] # NoOutcome
    THEN /\ last' = Call("abort", t, Error(exc),
                          Raise(Exc("AssertionError", "", <<>>)))
         /\ UNCHANGED <<_coro, _started, _outcome, _callbacks, started,
                        start_time, start_sim_time, runnable, pending,
                        joined, fired, unscheduled, forced, moved>>
    ELSE /\ _outcome' = [_outcome EXCEPT ![t] = Error(exc)]
         /\ unschedule(t)
         /\ forced' = [forced EXCEPT ![t] = "abort"]
         /\ last' = Call("abort", t, Error(exc), Return(None))
         /\ UNCHANGED <<_coro, _started, started, start_time,
                        start_sim_time, pending, joined, moved>>

\* retval without its check: None for a task that has no outcome
retval_unchecked(t) ==
    /\ last' = Call("retval", t, NoOutcome,
                     IF _outcome[t] = NoOutcome
                     THEN Return(None)
                     ELSE get(_outcome[t]))
    /\ UNCHANGED <<_coro, _started, _outcome, _callbacks, started,
                   start_time, start_sim_time, runnable, pending, joined,
                   fired, unscheduled, forced, moved>>

\* the property retval
retval(t) ==
    /\ last' = Call("retval", t, NoOutcome,
                     IF _outcome[t] = NoOutcome
                     THEN Raise(Exc("RuntimeError",
                                    "coroutine is not complete", <<>>))
                     ELSE get(_outcome[t]))
    /\ UNCHANGED <<_coro, _started, _outcome, _callbacks, started,
                   start_time, start_sim_time, runnable, pending, joined,
                   fired, unscheduled, forced, moved>>

\* join(): a Join trigger on the task, for the joiner numbered
\* joined[t] + 1.  Waiting on it registers the joiner until the task
\* completes; on a task that has completed it is ready at once.
join(t) ==
    /\ joined' = [joined EXCEPT ![t] = @ + 1]
    /\ IF _outcome[t] = NoOutcome
       THEN /\ _callbacks' = [_callbacks EXCEPT ![t] =
                                 Append(@, joined[t] + 1)]
            /\ UNCHANGED fired
       ELSE /\ fired' = [fired EXCEPT ![t] =
                            Append(@, [cb |-> joined[t] + 1,
                                       outcome |-> _outcome[t],
                                       waited |-> FALSE])]
            /\ UNCHANGED _callbacks
    /\ last' = Call("join", t, NoOutcome, Return("Join"))
    /\ UNCHANGED <<_coro, _started, _outcome, started, start_time,
                   start_sim_time, runnable, pending, unscheduled, forced,
                   moved>>

---------------------------------------------------------------------------
(* The calls the scheduler and the other tasks make *)

\* what the calls on a task leave alone
others == <<logvars, racevars, factoryvars, sortvars, bridgevars>>

\* what time.time() and get_sim_time('ns') may return when a test reads
\* them, which it does on its first _advance only
Clock(t) == IF started[t] THEN {start_time[t]} ELSE 1..MaxTime

\* the scheduler resumes a task it holds, which has not completed; a body
\* suspends at most MaxSteps times
Advance(t) ==
    /\ pending = NoTask
    /\ t \in runnable
    /\ ~ _finished(t)
    /\ \E o \in ResumeOutcomes, m \in BodyMoves :
        /\ m.k = "yield" => _coro[t].steps < MaxSteps
        /\ \E wall \in Clock(t), sim \in Clock(t) :
                RunningTest_advance(t, o, m, wall, sim)
    /\ UNCHANGED others

\* the scheduler handles the CoroutineComplete it caught from _advance
Complete ==
    /\ pending # NoTask
    /\ UNCHANGED <<_coro, _started, _outcome, started, start_time,
                   start_sim_time, joined, forced, moved, last>>
    /\ unschedule(pending)
    /\ pending' = NoTask
    /\ UNCHANGED others

Kill(t) ==
    /\ pending = NoTask
    /\ kill(t)
    /\ UNCHANGED others

Abort(t) ==
    /\ pending = NoTask
    /\ \E exc \in AbortExcs : abort(t, exc)
    /\ UNCHANGED others

Retval(t) ==
    /\ pending = NoTask
    /\ retval(t)
    /\ UNCHANGED others

Join(t) ==
    /\ pending = NoTask
    /\ joined[t] < MaxJoin
    /\ join(t)
    /\ UNCHANGED others

Next ==
    \/ \E t \in Tasks : Advance(t)
    \/ Complete
    \/ \E t \in Tasks : Kill(t)
    \/ \E t \in Tasks : Abort(t)
    \/ \E t \in Tasks : Retval(t)
    \/ \E t \in Tasks : Join(t)

Spec == Init /\ [][Next]_vars

---------------------------------------------------------------------------
(* RunningTest.error_messages and RunningTest.ErrorLogHandler *)

\* the log records that reach the handler: sent to the logger cocotb
\* itself or to one below it
LogRecords == [name : {"cocotb", "cocotb.scheduler"}, msg : {"e1", "e2"}]

\* logging.Handler.format with no formatter set: the record's message
format(record) == record.msg

\* ErrorLogHandler.handle(record), fn being error_messages.append
handle(t, record) ==
    /\ IF record.name = "cocotb"
       THEN error_messages' =
                [error_messages EXCEPT ![t] = Append(@, format(record))]
       ELSE UNCHANGED error_messages
    /\ last' = Call("handle", t, record, Return(None))
    /\ UNCHANGED <<_coro, _started, _outcome, _callbacks, started,
                   start_time, start_sim_time, runnable, pending, joined,
                   fired, unscheduled, forced, moved>>

\* reading test.error_messages, an attribute
read_error_messages(t) ==
    /\ last' = Call("error_messages", t, NoOutcome,
                     Return(error_messages[t]))
    /\ UNCHANGED <<_coro, _started, _outcome, _callbacks, started,
                   start_time, start_sim_time, runnable, pending, joined,
                   fired, unscheduled, forced, moved, error_messages>>

Handle(t) ==
    /\ Len(error_messages[t]) < MaxLogs
    /\ \E record \in LogRecords : handle(t, record)
    /\ UNCHANGED <<racevars, factoryvars, sortvars, bridgevars>>

ReadLogs(t) ==
    /\ pending = NoTask
    /\ read_error_messages(t)
    /\ UNCHANGED <<racevars, factoryvars, sortvars, bridgevars>>

\* a test that logs while it runs and whose logs are read
NextLog ==
    \/ \E t \in Tasks : Advance(t)
    \/ Complete
    \/ \E t \in Tasks : Kill(t)
    \/ \E t \in Tasks : Retval(t)
    \/ \E t \in Tasks : Handle(t)
    \/ \E t \in Tasks : ReadLogs(t)

SpecLog == Init /\ [][NextLog]_vars

---------------------------------------------------------------------------
(* test(f, timeout_time=...): the wrapper that races f against a timer *)

\* the test and the task its wrapper makes of the decorated function
RaceTasks == {"test", "running_co"}

\* what a decorated function may return when it is called
FuncKinds == {"coroutine", "generator", "asyncgen", "other"}

\* a test's timeout_time: none, or a duration
Timeouts == {None, "1us"}

\* RunningTask.__init__(inst): the type check
RunningTask_init(inst) ==
    IF inst = "coroutine" THEN Return(None)
    ELSE IF inst = "generator" THEN Return(None)
    ELSE Raise(Exc("TypeError", inst, <<>>))

\* coroutine.__call__: RunningCoroutine(self._func(*args, **kwargs), self)
coroutine_call(returns) == RunningTask_init(returns)

\* test.__init__: with a timeout, the function the factory keeps is the
\* async def wrapper, which returns a coroutine whatever f returns
test_func(fn) ==
    IF fn.timeout_time # None THEN "coroutine" ELSE fn.returns

\* test.__call__: RunningTest(self._func(*args, **kwargs), self); the
\* regression manager hands the test to the scheduler
test_call ==
    LET r == RunningTask_init(test_func(func)) IN
    /\ last' = Call("test", "test", NoOutcome, r)
    /\ exists' = IF r.k = "return" THEN exists \cup {"test"} ELSE exists
    /\ runnable' = IF r.k = "return" THEN runnable \cup {"test"}
                   ELSE runnable
    /\ UNCHANGED <<_coro, _started, _outcome, _callbacks, started,
                   start_time, start_sim_time, pending, joined, fired,
                   unscheduled, forced, moved>>

\* the wrapper, first resumed: running_co = co(*args, **kwargs), then
\* await with_timeout(running_co, ...), which suspends on First(timer,
\* running_co); a TypeError of co(...) leaves the wrapper
f_start(returns) ==
    LET r == coroutine_call(returns) IN
    IF r.k = "raise"
    THEN [k |-> "raise", kind |-> r.exc.kind, payload |-> r.exc.payload]
    ELSE [k |-> "yield", v |-> "First"]

\* the wrapper's except clause left without its kill
f_except_no_kill(rc) == UNCHANGED taskvars

\* the wrapper, resumed by the timer: with_timeout raises SimTimeoutError,
\* except cocotb.result.SimTimeoutError: running_co.kill() ...
f_except(rc) == kill(rc)

\* ... raise
f_raise == [k |-> "raise", kind |-> "SimTimeoutError", payload |-> None]

\* the wrapper without its else clause
f_else_no_return(o) ==
    IF o.tag = "Value" THEN [k |-> "return", v |-> None]
    ELSE [k |-> "raise", kind |-> o.error.kind, payload |-> o.error.payload]

\* the wrapper, resumed by running_co's Join with outcome o: with_timeout
\* returns the value (else: return res) or raises the error, which no
\* clause of the wrapper catches
f_else(o) ==
    IF o.tag = "Value" THEN [k |-> "return", v |-> o.value]
    ELSE [k |-> "raise", kind |-> o.error.kind, payload |-> o.error.payload]

InitTimeout ==
    /\ Constructed(RaceTasks)
    /\ runnable = {}
    /\ exists = {}
    /\ func \in [returns : FuncKinds, timeout_time : Timeouts]
    /\ race = "none"
    /\ NoFactory
    /\ NoRegression
    /\ NoThread

CallTest ==
    /\ race = "none"
    /\ test_call
    /\ race' = "made"
    /\ UNCHANGED <<error_messages, func, factoryvars, sortvars, bridgevars>>

\* the scheduler's first _advance of a test that has a timeout
StartTest ==
    /\ race = "made"
    /\ func.timeout_time # None
    /\ pending = NoTask
    /\ "test" \in runnable
    /\ \E wall \in Clock("test"), sim \in Clock("test") :
            RunningTest_advance("test", Value(None), f_start(func.returns),
                                wall, sim)
    /\ exists' = IF f_start(func.returns).k = "yield"
                 THEN exists \cup {"running_co"} ELSE exists
    /\ race' = IF f_start(func.returns).k = "yield" THEN "yielded"
               ELSE "done"
    /\ UNCHANGED <<error_messages, func, factoryvars, sortvars, bridgevars>>

\* the scheduler takes the First the wrapper yielded: it starts the timer
\* and schedules running_co
Prime ==
    /\ race = "yielded"
    /\ runnable' = runnable \cup {"running_co"}
    /\ race' = "racing"
    /\ UNCHANGED <<_coro, _started, _outcome, _callbacks, started,
                   start_time, start_sim_time, pending, joined, fired,
                   unscheduled, forced, moved, last>>
    /\ UNCHANGED <<error_messages, func, exists, factoryvars, sortvars,
                   bridgevars>>

\* the scheduler resumes the decorated function's task
AdvanceBody ==
    /\ race = "racing"
    /\ pending = NoTask
    /\ "running_co" \in runnable
    /\ ~ _finished("running_co")
    /\ \E o \in ResumeOutcomes, m \in BodyMoves :
        /\ m.k = "yield" => _coro["running_co"].steps < MaxSteps
        /\ _advance("running_co", o, m)
    /\ UNCHANGED <<started, start_time, start_sim_time>>
    /\ UNCHANGED others

\* running_co has completed and its Join resumes the test
BodyWins ==
    /\ race = "racing"
    /\ pending = NoTask
    /\ _finished("running_co")
    /\ \E wall \in Clock("test"), sim \in Clock("test") :
            RunningTest_advance("test", _outcome["running_co"],
                                f_else(_outcome["running_co"]), wall, sim)
    /\ race' = "done"
    /\ UNCHANGED <<error_messages, func, exists, factoryvars, sortvars,
                   bridgevars>>

\* the timer fires while running_co has not completed and resumes the
\* test: the wrapper's except clause
TimerWins ==
    /\ race = "racing"
    /\ pending = NoTask
    /\ ~ _finished("running_co")
    /\ f_except("running_co")
    /\ race' = "timeout"
    /\ UNCHANGED <<error_messages, func, exists, factoryvars, sortvars,
                   bridgevars>>

\* ... and its raise, which ends the test's _advance
TimeoutRaise ==
    /\ race = "timeout"
    /\ \E wall \in Clock("test"), sim \in Clock("test") :
            RunningTest_advance("test", Value("timer"), f_raise, wall, sim)
    /\ race' = "done"
    /\ UNCHANGED <<error_messages, func, exists, factoryvars, sortvars,
                   bridgevars>>

NextTimeout ==
    \/ CallTest
    \/ StartTest
    \/ Prime
    \/ AdvanceBody
    \/ Complete
    \/ BodyWins
    \/ TimerWins
    \/ TimeoutRaise

SpecTimeout == InitTimeout /\ [][NextTimeout]_vars

---------------------------------------------------------------------------
(* test._id_count: the definition-order id of a test factory *)

\* the classes a test factory may be an instance of: test, and a class
\* derived from it
TestClasses == {"test", "subtest"}

\* self._id_count, an attribute looked up on the instance: found on
\* type(self) if that class has it, else on its base class test
lookup_id_count(cls) ==
    IF cls \in DOMAIN _id_count THEN _id_count[cls] ELSE _id_count["test"]

\* test.__init__: self._id = self._id_count; type(self)._id_count += 1
\* (the assignment sets the attribute on type(self))
test_init(cls) ==
    /\ factories' = Append(factories,
                           [cls |-> cls, _id |-> lookup_id_count(cls)])
    /\ _id_count' = [c \in DOMAIN _id_count \cup {cls} |->
                        IF c = cls THEN lookup_id_count(cls) + 1
                        ELSE _id_count[c]]
    /\ UNCHANGED tests

\* test.__call__ -> RunningTest.__init__: self._id = parent._id
RunningTest_init(parent) ==
    /\ tests' = Append(tests, [parent |-> parent,
                               _id |-> factories[parent]._id])
    /\ UNCHANGED <<_id_count, factories>>

InitFactory ==
    /\ Constructed({})
    /\ runnable = {}
    /\ exists = {}
    /\ NoRace
    /\ NoFactory
    /\ NoRegression
    /\ NoThread

\* a module that is imported defines a test
DefineTest(cls) ==
    /\ Len(factories) < MaxFactories
    /\ test_init(cls)
    /\ UNCHANGED <<taskvars, logvars, racevars, sortvars, bridgevars>>

\* the regression manager calls a test factory
MakeTest(parent) ==
    /\ Len(tests) < MaxTests
    /\ RunningTest_init(parent)
    /\ UNCHANGED <<taskvars, logvars, racevars, sortvars, bridgevars>>

NextFactory ==
    \/ \E cls \in TestClasses : DefineTest(cls)
    \/ \E parent \in DOMAIN factories : MakeTest(parent)

SpecFactory == InitFactory /\ [][NextFactory]_vars

---------------------------------------------------------------------------
(* RunningTest.sort_name *)

\* a string is the sequence of its characters' code points
Dot == <<46>>
\* the module names "mod" and "tb", the function names "fnD" and "fnE"
Modules == {<<109, 111, 100>>, <<116, 98>>}
Funcnames == {<<102, 110, 68>>, <<102, 110, 69>>}

\* RunningTest.stage: None, or an int
NoStage == <<>>
Stage(n) == <<n>>
Stages == {NoStage, Stage(1), Stage(2), Stage(10)}

\* "%d" % n, for n >= 0: the decimal digits
RECURSIVE str_d(_)
str_d(n) ==
    IF n < 10 THEN <<48 + n>>
    ELSE str_d(n \div 10) \o <<48 + (n % 10)>>

\* RunningTest.sort_name()
sort_name(t) ==
    IF t.stage = NoStage
    THEN t.module \o Dot \o t.funcname
    ELSE t.module \o Dot \o str_d(t.stage[1]) \o Dot \o t.funcname

\* x < y on Python strings: by the first character that differs, a proper
\* prefix being the smaller
str_lt(x, y) ==
    \E i \in 1..(Len(y)) :
        /\ \A j \in 1..(i - 1) : j <= Len(x) /\ x[j] = y[j]
        /\ (i > Len(x) \/ x[i] < y[i])

\* sorted(tests, key=lambda t: t.sort_name()) on two tests; the sort is
\* stable
sorted(ts) ==
    IF str_lt(sort_name(ts[2]), sort_name(ts[1]))
    THEN <<ts[2], ts[1]>>
    ELSE ts

InitSort ==
    /\ Constructed({})
    /\ runnable = {}
    /\ exists = {}
    /\ NoRace
    /\ NoFactory
    /\ NoThread
    /\ regression \in
            [1..2 -> [module : Modules, stage : Stages,
                      funcname : Funcnames]]
    /\ order = <<>>

\* the regression manager orders its tests
SortTests ==
    /\ order = <<>>
    /\ order' = sorted(regression)
    /\ UNCHANGED <<taskvars, logvars, racevars, factoryvars, regression,
                   bridgevars>>

NextSort == SortTests

SpecSort == InitSort /\ [][NextSort]_vars

---------------------------------------------------------------------------
(* function: a coroutine called from a thread *)

\* the task function.__call__ makes
BridgeTasks == {"coro"}

\* cocotb.scheduler.queue_function(task): the scheduler takes the task and
\* the calling thread blocks ...
queue_function(t) ==
    /\ runnable' = runnable \cup {t}
    /\ thread' = [pc |-> "blocked", task |-> t, res |-> NoOutcome]

\* ... until the task has completed, and returns its value or raises its
\* error
queue_function_return ==
    thread' = [thread EXCEPT !.pc = "returned",
                             !.res = get(_outcome[thread.task])]

\* function.__call__ that hands the task back as coroutine.__call__ does
function_call_unqueued(returns) ==
    LET r == coroutine_call(returns) IN
    IF r.k = "raise"
    THEN /\ thread' = [pc |-> "returned", task |-> NoTask, res |-> r]
         /\ UNCHANGED <<exists, runnable>>
    ELSE /\ exists' = exists \cup {"coro"}
         /\ thread' = [pc |-> "returned", task |-> "coro",
                        res |-> Return("coro")]
         /\ UNCHANGED runnable

\* function.__call__:
\* cocotb.scheduler.queue_function(self._coro(*args, **kwargs))
function_call(returns) ==
    LET r == coroutine_call(returns) IN
    IF r.k = "raise"
    THEN /\ thread' = [pc |-> "returned", task |-> NoTask, res |-> r]
         /\ UNCHANGED <<exists, runnable>>
    ELSE /\ exists' = exists \cup {"coro"}
         /\ queue_function("coro")

InitBridge ==
    /\ Constructed(BridgeTasks)
    /\ runnable = {}
    /\ exists = {}
    /\ func \in [returns : FuncKinds, timeout_time : {None}]
    /\ race = "none"
    /\ NoFactory
    /\ NoRegression
    /\ NoThread

\* a thread calls the cocotb.function
CallFunction ==
    /\ thread.pc = "outside"
    /\ function_call(func.returns)
    /\ UNCHANGED <<_coro, _started, _outcome, _callbacks, started,
                   start_time, start_sim_time, pending, joined, fired,
                   unscheduled, forced, moved, last>>
    /\ UNCHANGED <<logvars, func, race, factoryvars, sortvars>>

\* the scheduler resumes the task
AdvanceCoro(t) ==
    /\ pending = NoTask
    /\ t \in runnable
    /\ ~ _finished(t)
    /\ \E o \in ResumeOutcomes, m \in BodyMoves :
        /\ m.k = "yield" => _coro[t].steps < MaxSteps
        /\ _advance(t, o, m)
    /\ UNCHANGED <<started, start_time, start_sim_time>>
    /\ UNCHANGED others

\* the thread wakes up
ReturnFunction ==
    /\ thread.pc = "blocked"
    /\ pending = NoTask
    /\ _finished(thread.task)
    /\ queue_function_return
    /\ UNCHANGED <<taskvars, logvars, racevars, factoryvars, sortvars>>

NextBridge ==
    \/ CallFunction
    \/ \E t \in BridgeTasks : AdvanceCoro(t)
    \/ Complete
    \/ \E t \in BridgeTasks : Kill(t)
    \/ ReturnFunction

SpecBridge == InitBridge /\ [][NextBridge]_vars

---------------------------------------------------------------------------
(* Properties *)

\* the step is the call op on task t (every call records itself in last;
\* Complete, the one step that is not a call, leaves last as it is and is
\* taken only after an _advance)
Called(op, t) == last'.op = op /\ last'.task = t

\* what unschedule leaves of the joiners of t when the task's outcome is o
Notified(t, o) ==
    fired[t] \o [i \in 1..Len(_callbacks[t]) |->
                    [cb |-> _callbacks[t][i], outcome |-> o,
                     waited |-> TRUE]]

AssertionError == Exc("AssertionError", "", <<>>)
NotComplete == Exc("RuntimeError", "coroutine is not complete", <<>>)

\* C1: under every sequence of advance (on a task that is not Completed),
\* kill and abort calls, a task's outcome, once set, is never changed: it
\* is set at most once and Completed is absorbing.
C1_OutcomeSetOnce ==
    [][\A t \in Tasks :
        _outcome[t] # NoOutcome => _outcome'[t] = _outcome[t]]_vars

\* a task that failed in its body and was then killed
C1_Witness ==
    \E t \in Tasks :
        /\ forced[t] = None
        /\ _outcome[t].tag = "Error"
        /\ pending = NoTask
        /\ last.op = "kill" /\ last.task = t

\* C2: kill() on a Completed task changes neither the outcome nor the
\* scheduler and fires nothing; over any run unschedule is asked for at most
\* once per task, no joiner is fired twice, and once the task is Completed
\* and its completion handled every joiner has been fired exactly once.
C2_KillIdempotent ==
    /\ [][\A t \in Tasks :
            (_finished(t) /\ Called("kill", t)) =>
                UNCHANGED <<_coro, _started, _outcome, _callbacks, runnable,
                            pending, fired, unscheduled, forced>>]_vars
    /\ [](\A t \in Tasks :
            /\ unscheduled[t] <= 1
            /\ \A i, j \in DOMAIN fired[t] :
                    fired[t][i].cb = fired[t][j].cb => i = j
            /\ (_finished(t) /\ pending # t) =>
                    {fired[t][i].cb : i \in DOMAIN fired[t]} = 1..joined[t])

\* an aborted test with all its joiners fired, then killed
C2_Witness ==
    \E t \in Tasks :
        /\ forced[t] = "abort"
        /\ Len(fired[t]) >= 2
        /\ last.op = "kill" /\ last.task = t

\* C3: kill() on a task that is not Completed stores Value(None), takes the
\* task out of the scheduler's runnable set and fires the joiners that wait
\* on it, in order and with that outcome, all within the call.
C3_KillCompletes ==
    [][\A t \in Tasks :
        (~ _finished(t) /\ Called("kill", t)) =>
            /\ _outcome'[t] = Value(None)
            /\ t \notin runnable'
            /\ _callbacks'[t] = <<>>
            /\ fired'[t] = Notified(t, Value(None))
            /\ last'.res = Return(None)]_vars

\* a Running task with two joiners, killed
C3_Witness ==
    \E t \in Tasks :
        /\ forced[t] = "kill"
        /\ has_started(t)
        /\ _coro[t].state = "suspended"
        /\ Len(fired[t]) >= 2
        /\ last.op = "kill"

\* C4: from the kill() or abort() call that ends a task on, the call
\* included, its body runs no step; a task killed or aborted before any
\* advance is Completed with has_started() false and a body that never ran.
C4_ForcedRunsNoBody ==
    /\ [][\A t \in Tasks :
            forced'[t] # None =>
                (_coro'[t] = _coro[t] /\ moved'[t] = moved[t])]_vars
    /\ [](\A t \in Tasks :
            (forced[t] # None /\ ~ has_started(t)) =>
                /\ _finished(t)
                /\ _coro[t] = [state |-> "created", steps |-> 0]
                /\ moved[t] = NoMove)

\* a task killed before any advance, and read afterwards
C4_Witness ==
    \E t \in Tasks :
        /\ forced[t] = "kill"
        /\ ~ has_started(t)
        /\ last.op = "retval" /\ last.task = t

\* C5: abort() on a Completed test raises AssertionError and changes neither
\* the outcome nor the scheduler.
C5_AbortCompletedIsFatal ==
    [][\A t \in Tasks :
        (_finished(t) /\ Called("abort", t)) =>
            /\ last'.res = Raise(AssertionError)
            /\ UNCHANGED <<_coro, _started, _outcome, _callbacks, runnable,
                           pending, fired, unscheduled, forced>>]_vars

\* a killed test, then aborted
C5_Witness ==
    \E t \in Tasks :
        /\ forced[t] = "kill"
        /\ last.op = "abort" /\ last.task = t
        /\ last.res = Raise(AssertionError)

\* C6: abort(exc) on a test that is not Completed stores Error(exc), takes
\* the test out of the scheduler and fires its joiners with that outcome
\* within the call; afterwards the outcome stays (a kill() does not replace
\* it) and retval raises that exception.
C6_AbortCompletes ==
    /\ [][\A t \in Tasks :
            (~ _finished(t) /\ Called("abort", t)) =>
                /\ last'.arg.tag = "Error"
                /\ _outcome'[t] = last'.arg
                /\ last'.res = Return(None)
                /\ t \notin runnable'
                /\ _callbacks'[t] = <<>>
                /\ fired'[t] = Notified(t, last'.arg)]_vars
    /\ [][\A t \in Tasks :
            forced[t] = "abort" => _outcome'[t] = _outcome[t]]_vars
    /\ [](\A t \in Tasks :
            (forced[t] = "abort" /\ last.op = "retval" /\ last.task = t) =>
                (_outcome[t].tag = "Error"
                    /\ last.res = Raise(_outcome[t].error)))

\* an aborted test whose joiner was fired, read afterwards
C6_Witness ==
    \E t \in Tasks :
        /\ forced[t] = "abort"
        /\ Len(fired[t]) >= 1
        /\ fired[t][1].outcome = _outcome[t]
        /\ last.op = "retval" /\ last.task = t
        /\ last.res.k = "raise"

\* C7: reading retval changes no state of the task; with no outcome it
\* raises RuntimeError, with Value(v) it returns v, with Error(e) it raises e.
C7_Retval ==
    [][\A t \in Tasks :
        Called("retval", t) =>
            /\ UNCHANGED <<_coro, _started, _outcome, _callbacks, started,
                           start_time, start_sim_time, runnable, pending,
                           joined, fired, unscheduled, forced, moved>>
            /\ _outcome[t] = NoOutcome => last'.res = Raise(NotComplete)
            /\ _outcome[t].tag = "Value" =>
                    last'.res = Return(_outcome[t].value)
            /\ _outcome[t].tag = "Error" =>
                    last'.res = Raise(_outcome[t].error)]_vars

\* a Running task read before it completed
C7_Witness ==
    \E t \in Tasks :
        /\ has_started(t)
        /\ ~ _finished(t)
        /\ last.op = "retval" /\ last.task = t
        /\ last.res = Raise(NotComplete)

\* C8: when a body fails, whatever it raises (CoroutineComplete included),
\* the _advance that ran it raises a CoroutineComplete of its own, the
\* outcome is Error of that failure, and retval and every joiner get the
\* failure's kind and payload.
C8_FailureCaptured ==
    \A t \in Tasks :
        moved[t].k = "raise" =>
            /\ _outcome[t].tag = "Error"
            /\ _outcome[t].error.kind = moved[t].kind
            /\ _outcome[t].error.payload = moved[t].payload
            /\ (last.op = "_advance" /\ last.task = t) =>
                    last.res = Raise(CoroutineComplete)
            /\ (last.op = "retval" /\ last.task = t) =>
                    /\ last.res.k = "raise"
                    /\ last.res.exc.kind = moved[t].kind
                    /\ last.res.exc.payload = moved[t].payload
            /\ \A i \in DOMAIN fired[t] :
                    /\ fired[t][i].outcome.tag = "Error"
                    /\ fired[t][i].outcome.error.kind = moved[t].kind
                    /\ fired[t][i].outcome.error.payload = moved[t].payload
            /\ pending # t => _callbacks[t] = <<>>

\* a body that raised CoroutineComplete, with two joiners fired and retval
\* read
C8_Witness ==
    \E t \in Tasks :
        /\ moved[t].k = "raise"
        /\ moved[t].kind = "CoroutineComplete"
        /\ Len(fired[t]) >= 2
        /\ last.op = "retval" /\ last.task = t

\* C9: when a body returns V (by return or by raising ReturnValue), after
\* any number of suspensions, the _advance that ran it raises
\* CoroutineComplete, the outcome is Value(V) and retval returns V.
C9_ReturnValue ==
    \A t \in Tasks :
        moved[t].k \in {"return", "ReturnValue"} =>
            /\ _outcome[t] = Value(moved[t].v)
            /\ (last.op = "_advance" /\ last.task = t) =>
                    last.res = Raise(CoroutineComplete)
            /\ (last.op = "retval" /\ last.task = t) =>
                    last.res = Return(moved[t].v)

\* a body that suspended MaxSteps times and then returned "a", read
C9_Witness ==
    \E t \in Tasks :
        /\ moved[t] = [k |-> "return", v |-> "a"]
        /\ _coro[t].steps = MaxSteps + 1
        /\ last.op = "retval" /\ last.task = t

C11_JoinDelivers ==
    \A t \in Tasks :
        /\ \A i \in DOMAIN fired[t] :
                /\ _finished(t)
                /\ fired[t][i].outcome = _outcome[t]
                /\ (last.op = "retval" /\ last.task = t) =>
                        get(fired[t][i].outcome) = last.res
        /\ (_finished(t) /\ pending # t) => Len(fired[t]) = joined[t]
        /\ ~ _finished(t) => Len(_callbacks[t]) = joined[t]

\* a task that failed, joined once before and once after, then read
C11_Witness ==
    \E t \in Tasks :
        /\ _outcome[t].tag = "Error"
        /\ Len(fired[t]) = 2
        /\ fired[t][1].waited
        /\ ~ fired[t][2].waited
        /\ last.op = "retval" /\ last.task = t

\* C19: a test records start_time and start_sim_time on its first advance
\* and only there: a step that is not an advance of the test (kill, abort,
\* retval, join, the scheduler's unschedule) leaves them as they are, so
\* does every advance after the first, and a test that was never advanced
\* still has the values its constructor gave it.
C19_StartRecordedOnce ==
    [][\A t \in Tasks :
        /\ ~ has_started(t) =>
                /\ ~ started[t]
                /\ start_time[t] = 0 /\ start_sim_time[t] = 0
        /\ ~ has_started(t)' =>
                /\ ~ started'[t]
                /\ start_time'[t] = 0 /\ start_sim_time'[t] = 0
        /\ (has_started(t) \/ ~ Called("_advance", t)) =>
                /\ started'[t] = started[t]
                /\ start_time'[t] = start_time[t]
                /\ start_sim_time'[t] = start_sim_time[t]
        /\ (~ has_started(t) /\ Called("_advance", t)) =>
                /\ started'[t]
                /\ start_time'[t] \in 1..MaxTime
                /\ start_sim_time'[t] \in 1..MaxTime]_vars

\* a test advanced more than once and then killed, whose two start values
\* differ
C19_Witness ==
    \E t \in Tasks :
        /\ started[t]
        /\ _coro[t].steps = 2
        /\ forced[t] = "kill"
        /\ start_time[t] = 1 /\ start_sim_time[t] = 2

\* C20: an advance in which the body suspends returns the very object the
\* body yielded and leaves the task Running (started, outcome unset, the
\* task tests true, no joiner fired); and has_started() is true exactly
\* from the first advance on.
C20_SuspendKeepsRunning ==
    [][\A t \in Tasks :
        /\ (Called("_advance", t) /\ pending = NoTask
                /\ last'.res.k = "return") =>
                /\ moved'[t].k = "yield"
                /\ last'.res = Return(moved'[t].v)
                /\ has_started(t)'
                /\ _outcome'[t] = NoOutcome
                /\ bool(t)'
                /\ ~ _finished(t)'
                /\ pending' = NoTask
                /\ fired'[t] = fired[t]
                /\ _callbacks'[t] = _callbacks[t]
        /\ last.op = "init" => ~ has_started(t)
        /\ has_started(t)' <=> (has_started(t) \/ Called("_advance", t))]_vars

\* a task with a joiner waiting, suspended for the second time
C20_Witness ==
    \E t \in Tasks :
        /\ last.op = "_advance" /\ last.task = t
        /\ last.res = Return("r1")
        /\ _coro[t].steps = 2
        /\ has_started(t) /\ bool(t)
        /\ Len(_callbacks[t]) = 1 /\ fired[t] = <<>>

\* C16: reading the captured logs of a test that is not Completed is
\* fatal, as reading retval is: the read raises.
C16_LogReadGuarded ==
    \A t \in Tasks :
        (last.op = "error_messages" /\ last.task = t /\ ~ _finished(t)) =>
            last.res.k = "raise"

SimTimeoutError == Exc("SimTimeoutError", None, <<"body">>)

\* C12: when the timer resolves while the body task has not completed, the
\* wrapper kills the body task, which is Completed from then on, is held by
\* the scheduler no longer and runs no more; and the test completes with
\* Error(SimTimeoutError).
C12_TimeoutKillsBody ==
    [][/\ (race = "racing" /\ race' = "timeout") =>
            /\ ~ _finished("running_co")
            /\ _finished("running_co")'
            /\ forced'["running_co"] = "kill"
            /\ "running_co" \notin runnable'
            /\ _coro'["running_co"] = _coro["running_co"]
       /\ race \in {"timeout", "done"} =>
            /\ _finished("running_co") => _finished("running_co")'
            /\ _coro'["running_co"] = _coro["running_co"]
            /\ moved'["running_co"] = moved["running_co"]
            /\ _outcome'["running_co"] = _outcome["running_co"]
       /\ (race = "timeout" /\ race' = "done") =>
            /\ _outcome'["test"] = Error(SimTimeoutError)
            /\ pending' = "test"
       /\ (race' = "done" /\ forced'["running_co"] = "kill") =>
            _outcome'["test"] = Error(SimTimeoutError)]_vars

\* a body that had suspended once when the timer fired, and the test
\* completed and unscheduled
C12_Witness ==
    /\ race = "done"
    /\ pending = NoTask
    /\ forced["running_co"] = "kill"
    /\ _coro["running_co"] = [state |-> "suspended", steps |-> 1]
    /\ _outcome["test"] = Error(SimTimeoutError)
    /\ "test" \notin runnable

\* outcomes with the same content: the same value, or the same exception
\* (an exception gathers traceback frames as it travels, and _advance
\* removes frames from it)
SameOutcome(o1, o2) ==
    /\ o1.tag = o2.tag
    /\ o1.tag = "Value" => o1.value = o2.value
    /\ o1.tag = "Error" =>
            /\ o1.error.kind = o2.error.kind
            /\ o1.error.payload = o2.error.payload

C14_TypeErrorAtConstruction ==
    func.returns \notin {"coroutine", "generator"} =>
        /\ exists = {}
        /\ last.op = "test" =>
                last.res.k = "raise" /\ last.res.exc.kind = "TypeError"
        /\ last.op # "_advance"

\* C18: a test factory's id is greater than the id of every test factory
\* constructed before it, hence distinct from it, and a RunningTest has the
\* id of the factory that made it.
C18_IdsInDefinitionOrder ==
    /\ \A i, j \in DOMAIN factories :
            i < j => factories[i]._id < factories[j]._id
    /\ \A k \in DOMAIN tests :
            tests[k]._id = factories[tests[k].parent]._id

\* test a comes before test b: by module name; in the same module by
\* stage, the lower stage first and the tests with no stage in a group of
\* their own, after the staged ones; in the same stage by function name
Before(a, b) ==
    \/ str_lt(a.module, b.module)
    \/ /\ a.module = b.module
       /\ \/ a.stage # NoStage /\ b.stage = NoStage
          \/ /\ a.stage # NoStage /\ b.stage # NoStage
             /\ a.stage[1] < b.stage[1]
          \/ a.stage = b.stage /\ str_lt(a.funcname, b.funcname)

\* C17: tests sorted by sort_name are in the order of module name, then
\* stage, then function name: no test stands after one it comes before.
C17_SortedByModuleStageName ==
    order # <<>> => ~ Before(order[2], order[1])

\* C15: a thread that calls a cocotb.function makes one task, which the
\* scheduler takes, and stays blocked while the task's outcome is unset;
\* when the call has returned, the task is Completed and the call returned
\* the task's value or raised its error.
C15_BlocksUntilCompleted ==
    /\ thread.pc = "outside" => exists = {}
    /\ thread.pc = "blocked" =>
            /\ exists = {thread.task}
            /\ thread.task \in runnable \/ _finished(thread.task)
    /\ (thread.pc = "returned" /\ exists # {}) =>
            /\ exists = {thread.task}
            /\ _finished(thread.task)
            /\ thread.res = get(_outcome[thread.task])
    /\ \A t \in exists : ~ _finished(t) => thread.pc = "blocked"

\* a call that raised the error its task failed with after a suspension
C15_Witness ==
    /\ thread.pc = "returned"
    /\ thread.task = "coro"
    /\ _coro["coro"] = [state |-> "closed", steps |-> 2]
    /\ thread.res.k = "raise"
    /\ thread.res.exc.kind = "ValueError"

====
